---- MODULE Spec2Model ----
(***************************************************************************)
(* Murmuration: the entity store (Entity.ts), the neighbour query, the     *)
(* creation and the per-frame update of EntityManager, and the animation   *)
(* frame of Simulation with the listeners of main.ts.                      *)
(*                                                                         *)
(* Numbers.  The population lies on a line parallel to the z axis and all  *)
(* accelerations point along it, so a THREE.Vector3 is represented by its  *)
(* z component: add is +, multiplyScalar is *, length is the absolute      *)
(* value, distanceTo is the absolute difference and normalize is the sign. *)
(* All quantities are integers in fixed point, chosen so that the code's   *)
(* two products need no rounding:                                          *)
(*    deltaTime      tenths of a second      (deltaTime = 1 is 0.1 s)      *)
(*    acceleration   units / s^2                                           *)
(*    velocity       tenths of a unit / s    (velocity = 500 is 50 u/s)    *)
(*    position       hundredths of a unit    (distance = 2000 is 20 u)     *)
(* perceptionRadius and the constants maxSpeed, closeRange are kept in the *)
(* units of the source and converted where they are compared.              *)
(*                                                                         *)
(* Indices.  Sequences start at 1: index i here is index i - 1 of the      *)
(* source's arrays.                                                        *)
(***************************************************************************)
EXTENDS Integers, Sequences, FiniteSets, TLC

VARIABLES
    entities,             \* EntityManager.entities: the Entity objects, in array order
    movementFunction,     \* EntityManager.movementFunction: the name of the policy
    perceptionRadius,     \* EntityManager.perceptionRadius (units)
    maxEntityPerception,  \* EntityManager.maxEntityPerception
    instancedMesh,        \* EntityManager.instancedMesh and its instance matrices
    prev,                 \* history: entities as they were when the last update began
    calls,                \* history: the MovementInput of each policy call of the last update
    outputs,              \* history: the MovementOutput each of those calls returned
    deltaTime,            \* history: the deltaTime of the last update
    lastOp,               \* history: the operation that ran last
    ticks,                \* history: number of updates so far
    observer,             \* history: excludeIndex of the last direct neighbour query (0: none)
    nearby,               \* history: the list that query returned
    prevMesh,             \* history: instancedMesh as it was when the last update began
    created,              \* history: size before and count of the createEntities that ran last
    spawned,              \* history: the Vector3 position last drawn for each entity
    pc,                   \* where Simulation.animate stands: "idle" when no frame is running
    cursor,               \* the index the forEach of EntityManager.update has reached
    pending,              \* the user's clicks and inputs the browser has not dispatched yet
    publishes,            \* history: calls of updateInstancedMesh in the current frame
    rendered,             \* history: the instance matrices renderer.render last drew
    clockDelta,           \* history: what clock.getDelta() returned in the last frame
    scheduled,            \* a callback of requestAnimationFrame is waiting
    renders               \* history: calls of renderer.render in the current frame

vars == <<entities, movementFunction, perceptionRadius, maxEntityPerception, instancedMesh, prev,
          calls, outputs, deltaTime, lastOp, ticks, observer, nearby, prevMesh, created, spawned,
          pc, cursor, pending, publishes, rendered, clockDelta, scheduled, renders>>

\* the variables of the animation frame and of the user interface
frameVars == <<pc, cursor, pending, publishes, rendered, clockDelta, scheduled, renders>>

-----------------------------------------------------------------------------
(* Bounds of the model *)

MaxEntities == 2      \* population size of the update specification
MaxTicks == 1         \* updates per behaviour
MaxCrowd == 9         \* agents in the close tier of the query specification
MaxOuter == 2         \* agents in the outer tier of the query specification
MaxFrames == 2        \* animation frames per behaviour
MaxPending == 1       \* user inputs waiting to be dispatched

(* Program constants *)

maxSpeed == 50        \* units / s
closeRange == 20      \* units
sampleCount == 5

-----------------------------------------------------------------------------
(* Numbers and THREE.Vector3 *)

Abs(x) == IF x < 0 THEN -x ELSE x

Min(a, b) == IF a <= b THEN a ELSE b

Max(a, b) == IF a >= b THEN a ELSE b

\* Vector3.length
length(v) == Abs(v)

\* Vector3.normalize: divideScalar(length() || 1)
normalize(v) == IF v > 0 THEN 1 ELSE IF v < 0 THEN -1 ELSE 0

\* Vector3.distanceTo
distanceTo(a, b) == Abs(a - b)

\* a speed of the source (units / s) in the model's velocity unit
Tenths(u) == u * 10

\* a distance of the source (units) in the model's position unit
Hundredths(u) == u * 100

\* Array.prototype.slice(start, end) for start >= 0: a negative end counts
\* from the end of the array, and both are clamped to the array
slice(arr, start, end) ==
    LET len == Len(arr)
        to == IF end < 0 THEN Max(len + end, 0) ELSE Min(end, len)
        from == Min(start, len)
    IN  IF to <= from THEN << >> ELSE SubSeq(arr, from + 1, to)

-----------------------------------------------------------------------------
(* Entity *)

\* the orientation of a mesh: 0 is the identity quaternion, 1 and -1 are
\* setFromUnitVectors(up, direction) for the two directions of the line
Identity == 0

\* new Map()
EmptyMap == [k \in {} |-> 0]

\* new Entity(position, initialVelocity)
Entity(position, initialVelocity) ==
    [position |-> position,
     velocity |-> initialVelocity,
     randomVariables |-> EmptyMap,
     meshPosition |-> position,
     meshQuaternion |-> Identity]

\* Entity.getState: clones of the three fields
getState(entity) ==
    [position |-> entity.position,
     velocity |-> entity.velocity,
     randomVariables |-> entity.randomVariables]

\* Entity.getPosition
getPosition(entity) == entity.position

\* Entity.getVelocity
getVelocity(entity) == entity.velocity

\* getState returning the entity's own objects
sharedByGetStateAll == {"position", "velocity", "randomVariables"}

\* The fields of the entity whose objects the result of getState shares with
\* it, so that a write to the result reaches the entity: none, the two
\* vectors are clones and the map is a new Map
sharedByGetState == {}

\* likewise for getPosition and getVelocity, which return clones
sharedByGetPosition == {}
sharedByGetVelocity == {}

\* The velocity Entity.update stores (lines 74-79)
NewVelocityUncapped(velocity, acceleration, dt) == velocity + acceleration * dt

NewVelocity(velocity, acceleration, dt) ==
    LET v == velocity + acceleration * dt
    IN  IF length(v) > Tenths(maxSpeed)
        THEN normalize(v) * Tenths(maxSpeed)
        ELSE v

\* Entity.update with the position advanced by the velocity held before the call
Entity_updateOldVelocity(entity, acceleration, dt) ==
    LET v == NewVelocity(entity.velocity, acceleration, dt)
        p == entity.position + entity.velocity * dt
    IN  [entity EXCEPT !.velocity = v, !.position = p, !.meshPosition = p,
                       !.meshQuaternion = IF length(v) > 1 THEN normalize(v) ELSE @]

\* Entity.update with the acceleration added whatever the time step is
Entity_updateNoDt(entity, acceleration, dt) ==
    LET v == NewVelocity(entity.velocity, acceleration, 1)
        p == entity.position + v * dt
    IN  [entity EXCEPT !.velocity = v, !.position = p, !.meshPosition = p,
                       !.meshQuaternion = IF length(v) > 1 THEN normalize(v) ELSE @]

\* Entity.update(acceleration, deltaTime); 0.1 u/s is one tenth
Entity_update(entity, acceleration, dt) ==
    LET v == NewVelocity(entity.velocity, acceleration, dt)
        p == entity.position + v * dt
    IN  [entity EXCEPT !.velocity = v, !.position = p, !.meshPosition = p,
                       !.meshQuaternion = IF length(v) > 1 THEN normalize(v) ELSE @]

\* Entity.updateRandomVariables putting newVariables in the place of the map
Entity_replaceRandomVariables(entity, newVariables) ==
    [entity EXCEPT !.randomVariables = newVariables]

\* Entity.updateRandomVariables: every key of newVariables is set
Entity_updateRandomVariables(entity, newVariables) ==
    [entity EXCEPT !.randomVariables =
        [k \in (DOMAIN newVariables) \cup (DOMAIN @) |->
            IF k \in DOMAIN newVariables THEN newVariables[k] ELSE @[k]]]

\* Entity.setRandomVariable
Entity_setRandomVariable(entity, key, value) ==
    [entity EXCEPT !.randomVariables =
        [k \in {key} \cup (DOMAIN @) |-> IF k = key THEN value ELSE @[k]]]

\* Entity.setPosition
Entity_setPosition(entity, position) == [entity EXCEPT !.position = position]

\* Entity.setVelocity
Entity_setVelocity(entity, velocity) == [entity EXCEPT !.velocity = velocity]

-----------------------------------------------------------------------------
(* EntityManager: the neighbour query *)

\* The NearbyEntity built for entities[i] (lines 124-133).  The field index
\* is history: it names the entity the entry was read from.
nearbyEntity(ents, position, i) ==
    [position |-> getPosition(ents[i]),
     velocity |-> getVelocity(ents[i]),
     distance |-> distanceTo(position, getPosition(ents[i])),
     index |-> i]

\* the scan keeping only the entities strictly inside the radius
inRadiusStrict(ents, position, excludeIndex) ==
    LET all == [i \in 1..Len(ents) |-> nearbyEntity(ents, position, i)]
        Keep(e) == /\ e.index # excludeIndex
                   /\ e.distance < Hundredths(perceptionRadius)
    IN  SelectSeq(all, Keep)

\* The scan of lines 121-141: the entries within the perception radius, in
\* array order, without the excluded index
inRadius(ents, position, excludeIndex) ==
    LET all == [i \in 1..Len(ents) |-> nearbyEntity(ents, position, i)]
        Keep(e) == /\ e.index # excludeIndex
                   /\ e.distance <= Hundredths(perceptionRadius)
    IN  SelectSeq(all, Keep)

\* the scan without the test of line 122
inRadiusWithSelf(ents, position, excludeIndex) ==
    LET all == [i \in 1..Len(ents) |-> nearbyEntity(ents, position, i)]
        Keep(e) == e.distance <= Hundredths(perceptionRadius)
    IN  SelectSeq(all, Keep)

\* Array.prototype.sort((a, b) => a.distance - b.distance): ascending and
\* stable.  insert puts e behind every element that is not farther than it.
insert(sorted, e) ==
    LET n == Cardinality({k \in 1..Len(sorted) : sorted[k].distance <= e.distance})
    IN  SubSeq(sorted, 1, n) \o <<e>> \o SubSeq(sorted, n + 1, Len(sorted))

RECURSIVE sortByDistance(_)
sortByDistance(arr) ==
    IF arr = << >> THEN << >>
    ELSE insert(sortByDistance(SubSeq(arr, 1, Len(arr) - 1)), arr[Len(arr)])

\* closeNeighbors left in array order
closeNeighborsUnsorted(ents, position, excludeIndex) ==
    LET IsClose(e) == e.distance <= Hundredths(closeRange)
    IN  SelectSeq(inRadius(ents, position, excludeIndex), IsClose)

\* closeNeighbors and distantBirds after lines 135-145
closeNeighbors(ents, position, excludeIndex) ==
    LET IsClose(e) == e.distance <= Hundredths(closeRange)
    IN  sortByDistance(SelectSeq(inRadius(ents, position, excludeIndex), IsClose))

distantBirds(ents, position, excludeIndex) ==
    LET IsDistant(e) == ~(e.distance <= Hundredths(closeRange))
    IN  sortByDistance(SelectSeq(inRadius(ents, position, excludeIndex), IsDistant))

\* the selection with the outer tier taken first
selectNearbyOuterFirst(close, distant) ==
    LET allNearby == slice(distant, 0, maxEntityPerception)
        remainingSlots == maxEntityPerception - Len(allNearby)
    IN  IF remainingSlots > 0
        THEN slice(close, 0, Min(remainingSlots, 7)) \o allNearby
        ELSE allNearby

\* the selection that fills every remaining slot from the outer tier plus one
selectNearbyOneMore(close, distant) ==
    LET maxCloseNeighbors == Min(maxEntityPerception, 7)
        allNearby == slice(close, 0, maxCloseNeighbors)
        remainingSlots == maxEntityPerception - Len(allNearby)
    IN  IF remainingSlots >= 0
        THEN allNearby \o slice(distant, 0, remainingSlots + 1)
        ELSE allNearby

\* the selection of lines 147-157 from the two sorted groups
selectNearby(close, distant) ==
    LET maxCloseNeighbors == Min(maxEntityPerception, 7)
        allNearby == slice(close, 0, maxCloseNeighbors)
        remainingSlots == maxEntityPerception - Len(allNearby)
    IN  IF remainingSlots > 0
        THEN allNearby \o slice(distant, 0, remainingSlots)
        ELSE allNearby

\* the neighbour query with the observer left in the scan
findNearbyEntitiesWithSelf(ents, position, excludeIndex) ==
    LET IsClose(e) == e.distance <= Hundredths(closeRange)
        IsDistant(e) == ~IsClose(e)
        found == inRadiusWithSelf(ents, position, excludeIndex)
    IN  selectNearby(sortByDistance(SelectSeq(found, IsClose)),
                     sortByDistance(SelectSeq(found, IsDistant)))

\* EntityManager.findNearbyEntities(position, excludeIndex)
findNearbyEntities(ents, position, excludeIndex) ==
    selectNearby(closeNeighbors(ents, position, excludeIndex),
                 distantBirds(ents, position, excludeIndex))

\* EntityManager.getTerrainAhead: five fixed samples
getTerrainAhead(position, velocity) ==
    [i \in 1..sampleCount |-> [height |-> 0, type |-> "field", normal |-> "up"]]

-----------------------------------------------------------------------------
(* EntityManager: the instanced mesh *)

NoInstancedMesh == [created |-> FALSE, count |-> 0, matrices |-> << >>]

\* EntityManager.updateInstancedMesh: one matrix (position, quaternion) per
\* entity; nothing without a mesh
updateInstancedMesh(mesh, ents) ==
    IF ~mesh.created THEN mesh
    ELSE [mesh EXCEPT !.matrices =
            [i \in 1..Len(ents) |->
                [position |-> getPosition(ents[i]),
                 quaternion |-> IF length(getVelocity(ents[i])) > 1
                                THEN normalize(getVelocity(ents[i]))
                                ELSE Identity]]]

\* EntityManager.createInstancedMesh
createInstancedMesh(mesh, ents) ==
    IF Len(ents) = 0 THEN mesh
    ELSE updateInstancedMesh([created |-> TRUE, count |-> Len(ents), matrices |-> << >>],
                             ents)

-----------------------------------------------------------------------------
(* Movement functions: the policy is a constructor argument of the manager *)

\* MovementOutput.shouldUpdateRandomVariables is optional: the set of the
\* maps given, empty when the field is undefined
Undefined == {}

\* The forward force of the template's example: (0, 0, -5) below 20 u/s
forward(input) ==
    [acceleration |-> IF length(input.currentState.velocity) < Tenths(20) THEN -5 ELSE 0,
     shouldUpdateRandomVariables |-> Undefined]

\* A constant acceleration far above what the speed cap allows in one step,
\* with a patch of two variables
thrust(input) ==
    [acceleration |-> 1000,
     shouldUpdateRandomVariables |-> {[k \in {"a", "b"} |-> IF k = "a" THEN 2 ELSE 3]}]

\* Steer towards the first neighbour of the list and remember how many
\* neighbours were seen
gather(input) ==
    [acceleration |->
        IF input.nearbyEntities = << >> THEN 0
        ELSE 10 * normalize(input.nearbyEntities[1].position - input.currentState.position),
     shouldUpdateRandomVariables |-> {[k \in {"a"} |-> Len(input.nearbyEntities)]}]

\* gather, after which the policy overwrites every object of its input: the
\* position, velocity and variables of currentState and the position and
\* velocity of every neighbour
scribble(input) == gather(input)

\* what scribble writes
scribbled ==
    [position |-> Hundredths(999), velocity |-> Tenths(99), randomVariables |-> [k \in {"x"} |-> 9]]

\* The population after the writes of scribble to its input: they reach the
\* fields of entities[input.index] that currentState shares and the fields
\* of the neighbours that their entries share
policyWrites(ents, input) ==
    [j \in 1..Len(ents) |->
        LET own == IF j = input.index THEN sharedByGetState ELSE {}
            seen == IF \E n \in 1..Len(input.nearbyEntities) : input.nearbyEntities[n].index = j
                    THEN sharedByGetPosition \cup sharedByGetVelocity
                    ELSE {}
            fields == own \cup seen
        IN  [ents[j] EXCEPT
                !.position = IF "position" \in fields THEN scribbled.position ELSE @,
                !.velocity = IF "velocity" \in fields THEN scribbled.velocity ELSE @,
                !.randomVariables = IF "randomVariables" \in fields
                                    THEN scribbled.randomVariables ELSE @]]

\* gather by a policy that fails on an agent 20 u or more along the line:
\* what it returns when it returns, and when it throws instead
faulty(input) == gather(input)
throws(input) == movementFunction = "faulty" /\ input.currentState.position >= Hundredths(20)

MovementFunctions == {"forward", "thrust", "gather"}

\* this.movementFunction(input)
callMovementFunction(input) ==
    CASE movementFunction = "forward" -> forward(input)
      [] movementFunction = "thrust" -> thrust(input)
      [] movementFunction = "gather" -> gather(input)
      [] movementFunction = "scribble" -> scribble(input)
      [] movementFunction = "faulty" -> faulty(input)

-----------------------------------------------------------------------------
(* EntityManager.update: the loop over the entities *)

\* One iteration of the forEach of lines 188-207, for entities[index]
forEachCallback(ents, index, dt) ==
    LET entity == ents[index]
        state == getState(entity)
        input == [currentState |-> state,
                  nearbyEntities |-> findNearbyEntities(ents, state.position, index),
                  terrainAhead |-> getTerrainAhead(state.position, state.velocity),
                  deltaTime |-> dt,
                  index |-> index]
        output == callMovementFunction(input)
        stored == IF movementFunction = "scribble" THEN policyWrites(ents, input) ELSE ents
        moved == Entity_update(stored[index], output.acceleration, dt)
        merged == IF output.shouldUpdateRandomVariables # Undefined
                  THEN Entity_updateRandomVariables(moved,
                          CHOOSE m \in output.shouldUpdateRandomVariables : TRUE)
                  ELSE moved
    IN  [entities |-> [stored EXCEPT ![index] = merged], input |-> input]

\* The forEach from entities[index] on.  log collects the inputs handed to
\* the movement function.
RECURSIVE forEach(_, _, _, _)
forEach(ents, index, dt, log) ==
    IF index > Len(ents) THEN [entities |-> ents, calls |-> log]
    ELSE
      LET done == forEachCallback(ents, index, dt)
      IN  forEach(done.entities, index + 1, dt, Append(log, done.input))

\* The loop as a barrier update: every query reads the entities as they were
\* when the update began
RECURSIVE forEachSnapshot(_, _, _, _, _)
forEachSnapshot(start, ents, index, dt, log) ==
    IF index > Len(ents) THEN [entities |-> ents, calls |-> log]
    ELSE
      LET state == getState(start[index])
          input == [currentState |-> state,
                    nearbyEntities |-> findNearbyEntities(start, state.position, index),
                    terrainAhead |-> getTerrainAhead(state.position, state.velocity),
                    deltaTime |-> dt,
                    index |-> index]
          moved == Entity_update(ents[index], callMovementFunction(input).acceleration, dt)
      IN  forEachSnapshot(start, [ents EXCEPT ![index] = moved], index + 1, dt,
                          Append(log, input))

updateEntitiesSnapshot(ents, dt) == forEachSnapshot(ents, ents, 1, dt, << >>)

\* The loop running from the last entity to the first
RECURSIVE forEachReversed(_, _, _, _)
forEachReversed(ents, index, dt, log) ==
    IF index < 1 THEN [entities |-> ents, calls |-> log]
    ELSE
      LET state == getState(ents[index])
          input == [currentState |-> state,
                    nearbyEntities |-> findNearbyEntities(ents, state.position, index),
                    terrainAhead |-> getTerrainAhead(state.position, state.velocity),
                    deltaTime |-> dt,
                    index |-> index]
          moved == Entity_update(ents[index], callMovementFunction(input).acceleration, dt)
      IN  forEachReversed([ents EXCEPT ![index] = moved], index - 1, dt,
                          Append(log, input))

updateEntitiesReversed(ents, dt) == forEachReversed(ents, Len(ents), dt, << >>)

\* The loop integrating every entity with the output of each call
RECURSIVE forEachAll(_, _, _, _)
forEachAll(ents, index, dt, log) ==
    IF index > Len(ents) THEN [entities |-> ents, calls |-> log]
    ELSE
      LET state == getState(ents[index])
          input == [currentState |-> state,
                    nearbyEntities |-> findNearbyEntities(ents, state.position, index),
                    terrainAhead |-> getTerrainAhead(state.position, state.velocity),
                    deltaTime |-> dt,
                    index |-> index]
          output == callMovementFunction(input)
          moved == [i \in 1..Len(ents) |-> Entity_update(ents[i], output.acceleration, dt)]
      IN  forEachAll(moved, index + 1, dt, Append(log, input))

updateEntitiesAll(ents, dt) == forEachAll(ents, 1, dt, << >>)

\* this.entities.forEach(...) of EntityManager.update
updateEntities(ents, dt) == forEach(ents, 1, dt, << >>)

-----------------------------------------------------------------------------
(* Inputs *)

\* constructor arguments perceptionRadius and maxEntityPerception (no validation)
PerceptionRadii == {20, 50}
UpdateRadii == {50}
UpdateCaps == {1, 3}
PerceptionCaps == {-1, 0, 1, 3, 7, 8, 10}

\* positions and velocities createEntities draws: |z| <= 400 u, |v.z| <= 5 u/s
InitPositions == {0, 1990}
InitVelocities == {40}

\* velocities given to Entity.setVelocity
SetVelocities == {600}

\* deltaTime of an update: 0, 0.1 s, 1 s
DeltaTimes == {0, 1}

\* velocities createEntities draws for the flight specification: at rest, 0.5 u/s
FlightVelocities == {0, 5}

\* key and value given to Entity.setRandomVariable
SetVariables == {<<"a", 1>>, <<"c", 7>>}

\* no createEntities ran last
NoCreation == {}

\* no frame is running, nothing was rendered and no user input waits
NoFrame ==
    /\ pc = "idle"
    /\ cursor = 0
    /\ pending = {}
    /\ publishes = 0
    /\ rendered = << >>
    /\ clockDelta = 0
    /\ scheduled = FALSE
    /\ renders = 0

-----------------------------------------------------------------------------
(* The update specification: a small population under every operation *)

\* new EntityManager(movementFunction, perceptionRadius, maxEntityPerception)
Init ==
    /\ entities = << >>
    /\ movementFunction \in MovementFunctions
    /\ perceptionRadius \in UpdateRadii
    /\ maxEntityPerception \in UpdateCaps
    /\ instancedMesh = NoInstancedMesh
    /\ prev = << >>
    /\ calls = << >>
    /\ outputs = << >>
    /\ deltaTime = 0
    /\ lastOp = "new"
    /\ ticks = 0
    /\ observer = 0
    /\ nearby = << >>
    /\ prevMesh = NoInstancedMesh
    /\ created = NoCreation
    /\ spawned = << >>
    /\ NoFrame

\* EntityManager.createEntities(count)
createEntities(count) ==
    /\ Len(entities) + count <= MaxEntities
    /\ \E positions \in [1..count -> InitPositions],
          velocities \in [1..count -> InitVelocities] :
          LET fresh == [i \in 1..count |-> Entity(positions[i], velocities[i])]
              all == entities \o fresh
          IN  /\ entities' = all
              /\ instancedMesh' = createInstancedMesh(instancedMesh, all)
    /\ lastOp' = "createEntities"
    /\ created' = {[before |-> Len(entities), count |-> count]}
    /\ UNCHANGED <<movementFunction, perceptionRadius, maxEntityPerception, prev, calls, outputs,
                   deltaTime, ticks, observer, nearby, prevMesh, spawned, frameVars>>

\* getEntities()[i - 1].setVelocity(velocity)
setVelocity(i, velocity) ==
    /\ i \in 1..Len(entities)
    /\ entities' = [entities EXCEPT ![i] = Entity_setVelocity(@, velocity)]
    /\ lastOp' = "setVelocity"
    /\ created' = NoCreation
    /\ UNCHANGED <<movementFunction, perceptionRadius, maxEntityPerception, instancedMesh, prev, calls,
                   outputs, deltaTime, ticks, observer, nearby, prevMesh, spawned, frameVars>>

\* getEntities()[i - 1].setRandomVariable(key, value)
setRandomVariable(i, key, value) ==
    /\ i \in 1..Len(entities)
    /\ entities' = [entities EXCEPT ![i] = Entity_setRandomVariable(@, key, value)]
    /\ lastOp' = "setRandomVariable"
    /\ created' = NoCreation
    /\ UNCHANGED <<movementFunction, perceptionRadius, maxEntityPerception, instancedMesh, prev, calls,
                   outputs, deltaTime, ticks, observer, nearby, prevMesh, spawned, frameVars>>

\* EntityManager.update(deltaTime)
update(dt) ==
    /\ ticks < MaxTicks
    /\ LET done == updateEntities(entities, dt)
           called == [i \in 1..Len(done.calls) |-> callMovementFunction(done.calls[i])]
       IN  /\ entities' = done.entities
           /\ calls' = done.calls
           /\ outputs' = called
           /\ instancedMesh' = updateInstancedMesh(instancedMesh, done.entities)
    /\ prev' = entities
    /\ prevMesh' = instancedMesh
    /\ deltaTime' = dt
    /\ lastOp' = "update"
    /\ ticks' = ticks + 1
    /\ created' = NoCreation
    /\ UNCHANGED <<movementFunction, perceptionRadius, maxEntityPerception, observer, nearby, spawned,
                   frameVars>>

Next ==
    \/ \E count \in 0..MaxEntities : createEntities(count)
    \/ \E i \in 1..MaxEntities, velocity \in SetVelocities : setVelocity(i, velocity)
    \/ \E dt \in DeltaTimes : update(dt)

Spec == Init /\ [][Next]_vars

-----------------------------------------------------------------------------
(* The flight specification: two entities created at rest or slowly moving, *)
(* their variables set from outside, under the update                       *)

\* the policies of the flight specification
FlightPolicies == MovementFunctions \cup {"scribble"}

\* the populations createEntities(2) makes of the draws
FlightPopulations ==
    {[i \in 1..2 |-> Entity(positions[i], velocities[i])] :
        positions \in [1..2 -> InitPositions], velocities \in [1..2 -> FlightVelocities]}

\* new EntityManager(...) followed by createEntities(2)
FlightInit ==
    /\ entities \in FlightPopulations
    /\ movementFunction \in FlightPolicies
    /\ perceptionRadius \in UpdateRadii
    /\ maxEntityPerception \in UpdateCaps
    /\ instancedMesh = createInstancedMesh(NoInstancedMesh, entities)
    /\ prev = << >>
    /\ calls = << >>
    /\ outputs = << >>
    /\ deltaTime = 0
    /\ lastOp = "createEntities"
    /\ ticks = 0
    /\ observer = 0
    /\ nearby = << >>
    /\ prevMesh = NoInstancedMesh
    /\ created = {[before |-> 0, count |-> Len(entities)]}
    /\ spawned = << >>
    /\ NoFrame

FlightNext ==
    \/ \E i \in 1..2, variable \in SetVariables : setRandomVariable(i, variable[1], variable[2])
    \/ \E dt \in DeltaTimes : update(dt)

FlightSpec == FlightInit /\ [][FlightNext]_vars

-----------------------------------------------------------------------------
(* Random placement.  A result of Math.random() is given in thousandths:   *)
(* random = 525 is 0.525.                                                   *)

\* EntityManager.terrainSize as main.ts configures it
terrainSize == 1000

\* a horizontal coordinate drawn over the whole width of the terrain
randomCoordinateWhole(random) == ((random - 500) * terrainSize * 10) \div 100

\* (Math.random() - 0.5) * this.terrainSize * 0.8, in hundredths of a unit
randomCoordinate(random) == ((random - 500) * terrainSize * 8) \div 100

\* 20 + Math.random() * 80, in hundredths of a unit
randomHeight(random) == 2000 + random * 8

\* (Math.random() - 0.5) * 10, in tenths of a unit / s
randomSpeed(random) == (random - 500) \div 10

\* the Vector3 position of lines 39-43 for three results of Math.random()
randomPosition(draw) ==
    [x |-> randomCoordinate(draw.x), y |-> randomHeight(draw.y), z |-> randomCoordinate(draw.z)]

\* new Entity(position, velocity) of lines 39-51: the entity on the line
randomEntity(draw) == Entity(randomPosition(draw).z, randomSpeed(draw.v))

\* results of Math.random() for one entity: the position's x, y and z and
\* the velocity's z.  SpawnDraws reach both ends of every range, LineDraws
\* keep the entities on one line, 0 or 20 u along it, at 0.5 u/s.
SpawnDraws ==
    {[x |-> 0, y |-> 0, z |-> 0, v |-> 550],
     [x |-> 999, y |-> 999, z |-> 999, v |-> 550],
     [x |-> 0, y |-> 999, z |-> 500, v |-> 550]}
LineDraws == [x : {500}, y : {0}, z : {500, 525}, v : {550}]

\* EntityManager.randomizeEntities(): every entity is given a new position
\* and a new velocity drawn as createEntities draws them; the population
\* size and the entities' variables stay
randomizeEntities(ents, draws) ==
    [i \in 1..Len(ents) |->
        Entity_setVelocity(Entity_setPosition(ents[i], randomPosition(draws[i]).z),
                           randomSpeed(draws[i].v))]

-----------------------------------------------------------------------------
(* The spawn specification: the positions createEntities and               *)
(* randomizeEntities draw, in three dimensions                             *)

\* EntityManager.createEntities(count) with the positions it draws
spawnEntities(count) ==
    /\ count > 0
    /\ Len(entities) + count <= MaxEntities
    /\ \E draws \in [1..count -> SpawnDraws] :
          LET all == entities \o [i \in 1..count |-> randomEntity(draws[i])]
          IN  /\ entities' = all
              /\ instancedMesh' = createInstancedMesh(instancedMesh, all)
              /\ spawned' = spawned \o [i \in 1..count |-> randomPosition(draws[i])]
    /\ lastOp' = "createEntities"
    /\ created' = {[before |-> Len(entities), count |-> count]}
    /\ UNCHANGED <<movementFunction, perceptionRadius, maxEntityPerception, prev, calls, outputs,
                   deltaTime, ticks, observer, nearby, prevMesh, frameVars>>

\* EntityManager.randomizeEntities() with the positions it draws
respawnEntities ==
    /\ entities # << >>
    /\ \E draws \in [1..Len(entities) -> SpawnDraws] :
          /\ entities' = randomizeEntities(entities, draws)
          /\ spawned' = [i \in 1..Len(entities) |-> randomPosition(draws[i])]
    /\ lastOp' = "randomizeEntities"
    /\ created' = NoCreation
    /\ UNCHANGED <<movementFunction, perceptionRadius, maxEntityPerception, instancedMesh, prev, calls,
                   outputs, deltaTime, ticks, observer, nearby, prevMesh, frameVars>>

SpawnNext ==
    \/ \E count \in 1..MaxEntities : spawnEntities(count)
    \/ respawnEntities

SpawnSpec == Init /\ [][SpawnNext]_vars

-----------------------------------------------------------------------------
(* The frame specification: Simulation.animate step by step, with the      *)
(* user's clicks and slider inputs arriving at any moment                  *)

\* what clock.getDelta() returns: 0 s, 0.5 s
FrameDeltas == {0, 5}

\* the elements of the page that main.ts listens to
UserInputs == {"randomize-birds", "perceptionRadius", "maxEntityPerception"}

\* the policy and the perception cap Simulation is constructed with
FramePolicies == {"gather"}
FrameCaps == {3}

\* the values the two sliders are moved to
SliderRadii == {20}
SliderCaps == {1}

\* main.ts: new Simulation(canvas, config, calculateMovement), which creates
\* config.entityCount entities and adds the instanced mesh to the scene
FrameInit ==
    /\ \E draws \in [1..MaxEntities -> LineDraws] :
          /\ entities = [i \in 1..MaxEntities |-> randomEntity(draws[i])]
          /\ spawned = [i \in 1..MaxEntities |-> randomPosition(draws[i])]
    /\ movementFunction \in FramePolicies
    /\ perceptionRadius \in UpdateRadii
    /\ maxEntityPerception \in FrameCaps
    /\ instancedMesh = createInstancedMesh(NoInstancedMesh, entities)
    /\ prev = << >>
    /\ calls = << >>
    /\ outputs = << >>
    /\ deltaTime = 0
    /\ lastOp = "createEntities"
    /\ ticks = 0
    /\ observer = 0
    /\ nearby = << >>
    /\ prevMesh = NoInstancedMesh
    /\ created = {[before |-> 0, count |-> MaxEntities]}
    /\ NoFrame

\* main.ts registers its listeners after simulation.start() has run the
\* first frame
Listening == ticks > 1 \/ (ticks = 1 /\ pc = "idle")

\* Simulation.animate handing the time step read to EntityManager.update
animateUnclamped(delta) ==
    /\ pc = "idle"
    /\ (ticks = 0 \/ scheduled)
    /\ ticks < MaxFrames
    /\ scheduled' = TRUE
    /\ clockDelta' = delta
    /\ renders' = 0
    /\ pc' = "forEach"
    /\ cursor' = 1
    /\ deltaTime' = delta
    /\ prev' = entities
    /\ prevMesh' = instancedMesh
    /\ calls' = << >>
    /\ outputs' = << >>
    /\ publishes' = 0
    /\ ticks' = ticks + 1
    /\ lastOp' = "animate"
    /\ created' = NoCreation
    /\ UNCHANGED <<entities, movementFunction, perceptionRadius, maxEntityPerception, instancedMesh,
                   observer, nearby, spawned, pending, rendered>>

\* animate with requestAnimationFrame as its last statement: nothing is
\* scheduled while the frame runs
animateRequestingLast(delta) ==
    /\ pc = "idle"
    /\ (ticks = 0 \/ scheduled)
    /\ ticks < MaxFrames
    /\ scheduled' = FALSE
    /\ clockDelta' = delta
    /\ renders' = 0
    /\ pc' = "forEach"
    /\ cursor' = 1
    /\ deltaTime' = Min(delta, 1)
    /\ prev' = entities
    /\ prevMesh' = instancedMesh
    /\ calls' = << >>
    /\ outputs' = << >>
    /\ publishes' = 0
    /\ ticks' = ticks + 1
    /\ lastOp' = "animate"
    /\ created' = NoCreation
    /\ UNCHANGED <<entities, movementFunction, perceptionRadius, maxEntityPerception, instancedMesh,
                   observer, nearby, spawned, pending, rendered>>

\* Simulation.animate up to the call of EntityManager.update, called by
\* simulation.start() or as the callback requested by the frame before: the
\* next frame is requested, the time step is read and clamped to 0.1 s
animate(delta) ==
    /\ pc = "idle"
    /\ (ticks = 0 \/ scheduled)
    /\ ticks < MaxFrames
    /\ scheduled' = TRUE
    /\ clockDelta' = delta
    /\ renders' = 0
    /\ pc' = "forEach"
    /\ cursor' = 1
    /\ deltaTime' = Min(delta, 1)
    /\ prev' = entities
    /\ prevMesh' = instancedMesh
    /\ calls' = << >>
    /\ outputs' = << >>
    /\ publishes' = 0
    /\ ticks' = ticks + 1
    /\ lastOp' = "animate"
    /\ created' = NoCreation
    /\ UNCHANGED <<entities, movementFunction, perceptionRadius, maxEntityPerception, instancedMesh,
                   observer, nearby, spawned, pending, rendered>>

\* one iteration of the forEach that also writes the instance matrices
update_forEachPublishing ==
    /\ pc = "forEach"
    /\ cursor <= Len(entities)
    /\ LET done == forEachCallback(entities, cursor, deltaTime)
       IN  /\ entities' = done.entities
           /\ calls' = Append(calls, done.input)
           /\ outputs' = Append(outputs, callMovementFunction(done.input))
           /\ instancedMesh' = updateInstancedMesh(instancedMesh, done.entities)
    /\ publishes' = publishes + 1
    /\ cursor' = cursor + 1
    /\ UNCHANGED <<movementFunction, perceptionRadius, maxEntityPerception, prev,
                   deltaTime, lastOp, ticks, observer, nearby, prevMesh, created, spawned, pc,
                   pending, rendered,
                   clockDelta, scheduled, renders>>

\* EntityManager.update: one iteration of the forEach
update_forEach ==
    /\ pc = "forEach"
    /\ cursor <= Len(entities)
    /\ LET done == forEachCallback(entities, cursor, deltaTime)
       IN  /\ ~throws(done.input)
           /\ entities' = done.entities
           /\ calls' = Append(calls, done.input)
           /\ outputs' = Append(outputs, callMovementFunction(done.input))
    /\ cursor' = cursor + 1
    /\ UNCHANGED <<movementFunction, perceptionRadius, maxEntityPerception, instancedMesh, prev,
                   deltaTime, lastOp, ticks, observer, nearby, prevMesh, created, spawned, pc,
                   pending, publishes, rendered,
                   clockDelta, scheduled, renders>>

\* EntityManager.update: the policy throws in an iteration of the forEach.
\* Nothing catches it in update or animate: the entity is not updated, the
\* forEach, updateInstancedMesh and renderer.render are skipped, and the
\* frame requested at the top of animate stays requested
update_forEachThrows ==
    /\ pc = "forEach"
    /\ cursor <= Len(entities)
    /\ LET input == forEachCallback(entities, cursor, deltaTime).input
       IN  /\ throws(input)
           /\ calls' = Append(calls, input)
    /\ pc' = "idle"
    /\ cursor' = 0
    /\ lastOp' = "throw"
    /\ UNCHANGED <<entities, movementFunction, perceptionRadius, maxEntityPerception, instancedMesh,
                   prev, outputs, deltaTime, ticks, observer, nearby, prevMesh, created, spawned,
                   pending, publishes, rendered, clockDelta, scheduled, renders>>

\* EntityManager.update: the forEach is over, updateInstancedMesh runs and
\* update returns
update_updateInstancedMesh ==
    /\ pc = "forEach"
    /\ cursor > Len(entities)
    /\ instancedMesh' = updateInstancedMesh(instancedMesh, entities)
    /\ publishes' = publishes + 1
    /\ pc' = "render"
    /\ lastOp' = "update"
    /\ UNCHANGED <<entities, movementFunction, perceptionRadius, maxEntityPerception, prev, calls,
                   outputs, deltaTime, ticks, observer, nearby, prevMesh, created, spawned, cursor,
                   pending, rendered,
                   clockDelta, scheduled, renders>>

\* Simulation.animate after update: renderer.render draws the scene, which
\* holds the instanced mesh, and animate returns
animate_render ==
    /\ pc = "render"
    /\ rendered' = instancedMesh.matrices
    /\ renders' = renders + 1
    /\ pc' = "idle"
    /\ cursor' = 0
    /\ lastOp' = "render"
    /\ UNCHANGED <<entities, movementFunction, perceptionRadius, maxEntityPerception, instancedMesh,
                   prev, calls, outputs, deltaTime, ticks, observer, nearby, prevMesh, created,
                   spawned, pending, publishes,
                   clockDelta, scheduled>>

\* the user clicks the button or moves a slider: the browser queues the event
userInput(id) ==
    /\ Listening
    /\ id \notin pending
    /\ Cardinality(pending) < MaxPending
    /\ pending' = pending \cup {id}
    /\ UNCHANGED <<entities, movementFunction, perceptionRadius, maxEntityPerception, instancedMesh,
                   prev, calls, outputs, deltaTime, lastOp, ticks, observer, nearby, prevMesh,
                   created, spawned, pc, cursor, publishes, rendered,
                   clockDelta, scheduled, renders>>

\* the click listener dispatched whatever the animation frame is doing
onClickPreempting ==
    /\ "randomize-birds" \in pending
    /\ pending' = pending \ {"randomize-birds"}
    /\ \E draws \in [1..Len(entities) -> LineDraws] :
          /\ entities' = randomizeEntities(entities, draws)
          /\ spawned' = [i \in 1..Len(entities) |-> randomPosition(draws[i])]
    /\ lastOp' = "randomizeEntities"
    /\ created' = NoCreation
    /\ UNCHANGED <<movementFunction, perceptionRadius, maxEntityPerception, instancedMesh, prev, calls,
                   outputs, deltaTime, ticks, observer, nearby, prevMesh, pc, cursor, publishes,
                   rendered,
                   clockDelta, scheduled, renders>>

\* the click listener of the randomize button; the browser dispatches an
\* event only when no script is running
onClick ==
    /\ pc = "idle"
    /\ "randomize-birds" \in pending
    /\ pending' = pending \ {"randomize-birds"}
    /\ \E draws \in [1..Len(entities) -> LineDraws] :
          /\ entities' = randomizeEntities(entities, draws)
          /\ spawned' = [i \in 1..Len(entities) |-> randomPosition(draws[i])]
    /\ lastOp' = "randomizeEntities"
    /\ created' = NoCreation
    /\ UNCHANGED <<movementFunction, perceptionRadius, maxEntityPerception, instancedMesh, prev, calls,
                   outputs, deltaTime, ticks, observer, nearby, prevMesh, pc, cursor, publishes,
                   rendered,
                   clockDelta, scheduled, renders>>

\* EntityManager.setPerceptionRadius(value)
setPerceptionRadius(value) ==
    /\ perceptionRadius' = value
    /\ lastOp' = "setPerceptionRadius"
    /\ UNCHANGED maxEntityPerception

\* EntityManager.setMaxEntityPerception(value)
setMaxEntityPerception(value) ==
    /\ maxEntityPerception' = value
    /\ lastOp' = "setMaxEntityPerception"
    /\ UNCHANGED perceptionRadius

\* the input listener of the slider id
onInput(id) ==
    /\ pc = "idle"
    /\ id \in pending
    /\ pending' = pending \ {id}
    /\ \/ id = "perceptionRadius" /\ \E value \in SliderRadii : setPerceptionRadius(value)
       \/ id = "maxEntityPerception" /\ \E value \in SliderCaps : setMaxEntityPerception(value)
    /\ created' = NoCreation
    /\ UNCHANGED <<entities, movementFunction, instancedMesh, prev, calls, outputs, deltaTime, ticks,
                   observer, nearby, prevMesh, spawned, pc, cursor, publishes, rendered,
                   clockDelta, scheduled, renders>>

FrameNext ==
    \/ \E delta \in FrameDeltas : animate(delta)
    \/ update_forEach
    \/ update_updateInstancedMesh
    \/ animate_render
    \/ \E id \in UserInputs : userInput(id)
    \/ onClick
    \/ \E id \in UserInputs : onInput(id)

FrameSpec == FrameInit /\ [][FrameNext]_vars

-----------------------------------------------------------------------------
(* The fault specification: the frame loop of a simulation constructed     *)
(* with a policy that throws                                               *)

FaultPolicies == {"faulty"}

\* results of Math.random() that place an entity 0, 9.6 or 20 u along the line
FaultDraws == [x : {500}, y : {0}, z : {500, 512, 525}, v : {550}]

\* new Simulation(canvas, config, policy) as in FrameInit
FaultInit ==
    /\ \E draws \in [1..MaxEntities -> FaultDraws] :
          /\ entities = [i \in 1..MaxEntities |-> randomEntity(draws[i])]
          /\ spawned = [i \in 1..MaxEntities |-> randomPosition(draws[i])]
    /\ movementFunction \in FaultPolicies
    /\ perceptionRadius \in UpdateRadii
    /\ maxEntityPerception \in UpdateCaps
    /\ instancedMesh = createInstancedMesh(NoInstancedMesh, entities)
    /\ prev = << >>
    /\ calls = << >>
    /\ outputs = << >>
    /\ deltaTime = 0
    /\ lastOp = "createEntities"
    /\ ticks = 0
    /\ observer = 0
    /\ nearby = << >>
    /\ prevMesh = NoInstancedMesh
    /\ created = {[before |-> 0, count |-> MaxEntities]}
    /\ NoFrame

\* the frames of the loop, every one of which may end in a throw
FaultNext ==
    \/ \E delta \in FrameDeltas : animate(delta)
    \/ update_forEach
    \/ update_forEachThrows
    \/ update_updateInstancedMesh
    \/ animate_render

FaultSpec == FaultInit /\ [][FaultNext]_vars

-----------------------------------------------------------------------------
(* The query specification: findNearbyEntities on populations of up to      *)
(* MaxCrowd + MaxOuter + 5 entities                                         *)

\* n entities at rest at one position
Crowd(n, position) == [i \in 1..n |-> Entity(position, 0)]

\* Populations at 0 u, 10 u, 20 u, 21 u, 50 u and 51 u along the line
Populations ==
    {Crowd(a, 0) \o Crowd(b, 1000) \o Crowd(c, 2000) \o Crowd(d, 2100)
        \o Crowd(e, 5000) \o Crowd(f, 5100) :
        a \in 0..2, b \in 0..MaxCrowd, c \in 0..1, d \in 0..MaxOuter,
        e \in 0..1, f \in 0..1}

QueryInit ==
    /\ entities \in Populations
    /\ movementFunction = "forward"
    /\ perceptionRadius \in PerceptionRadii
    /\ maxEntityPerception \in PerceptionCaps
    /\ instancedMesh = createInstancedMesh(NoInstancedMesh, entities)
    /\ prev = << >>
    /\ calls = << >>
    /\ outputs = << >>
    /\ deltaTime = 0
    /\ lastOp = "createEntities"
    /\ ticks = 0
    /\ observer = 0
    /\ nearby = << >>
    /\ prevMesh = NoInstancedMesh
    /\ created = {[before |-> 0, count |-> Len(entities)]}
    /\ spawned = << >>
    /\ NoFrame

\* the call findNearbyEntities(state.position, index) of line 190 for entity i
query(i) ==
    /\ i \in 1..Len(entities)
    /\ observer' = i
    /\ nearby' = findNearbyEntities(entities, getState(entities[i]).position, i)
    /\ lastOp' = "findNearbyEntities"
    /\ UNCHANGED <<entities, movementFunction, perceptionRadius, maxEntityPerception, instancedMesh,
                   prev, calls, outputs, deltaTime, ticks, prevMesh, created, spawned, frameVars>>

QueryNext == \E i \in 1..(MaxCrowd + MaxOuter + 6) : query(i)

QuerySpec == QueryInit /\ [][QueryNext]_vars

-----------------------------------------------------------------------------
(* Properties of the update (checked under Spec) *)

Updated == lastOp = "update"

\* the population agent k's query read: the agents before k as the update
\* left them, the others as they were when the update began
SeenBy(k) == [j \in 1..Len(entities) |-> IF j < k THEN entities[j] ELSE prev[j]]

\* C1: after an update, in the neighbour list handed to the policy for agent
\* k, an entry read from an agent j < k carries the position and velocity j
\* has after the update, and an entry read from an agent j > k carries the
\* position and velocity j had when the update began.
C1_LiveRead ==
    Updated =>
        \A k \in 1..Len(calls) : \A n \in 1..Len(calls[k].nearbyEntities) :
            LET e == calls[k].nearbyEntities[n]
                j == e.index
            IN  /\ j < k => /\ e.position = entities[j].position
                            /\ e.velocity = entities[j].velocity
                /\ j > k => /\ e.position = prev[j].position
                            /\ e.velocity = prev[j].velocity
                /\ e.distance = Abs(prev[k].position - e.position)

\* an agent that moved in the update was perceived by a later agent, and an
\* agent perceived an agent that moved after it
C1_Witness ==
    /\ Updated
    /\ \E k \in 1..Len(calls) : \E n \in 1..Len(calls[k].nearbyEntities) :
          LET j == calls[k].nearbyEntities[n].index
          IN  j < k /\ entities[j].position # prev[j].position
    /\ \E k \in 1..Len(calls) : \E n \in 1..Len(calls[k].nearbyEntities) :
          LET j == calls[k].nearbyEntities[n].index
          IN  j > k /\ entities[j].position # prev[j].position

\* C4: after an update every agent's speed is at most maxSpeed (50 u/s),
\* whatever the velocities were before it.
C4_SpeedCap ==
    Updated => \A i \in 1..Len(entities) : length(entities[i].velocity) <= Tenths(maxSpeed)

\* an agent that entered the update faster than maxSpeed, or was accelerated
\* beyond it, leaves it at maxSpeed
C4_Witness ==
    /\ Updated
    /\ \E i \in 1..Len(entities) :
          /\ length(prev[i].velocity + outputs[i].acceleration * deltaTime) > Tenths(maxSpeed)
          /\ length(entities[i].velocity) = Tenths(maxSpeed)

\* C5 as stated: update(0) leaves the position and the velocity of every
\* agent as they were, whatever velocity the agent held.
C5_ZeroDtAnyVelocity ==
    (Updated /\ deltaTime = 0) =>
        \A i \in 1..Len(entities) :
            /\ entities[i].position = prev[i].position
            /\ entities[i].velocity = prev[i].velocity

\* C5 amended: update(0) leaves every position as it was, and the velocity
\* of every agent whose speed was at most maxSpeed; a faster agent is slowed
\* to maxSpeed in its direction.
C5_ZeroDtWithinCap ==
    (Updated /\ deltaTime = 0) =>
        \A i \in 1..Len(entities) :
            /\ entities[i].position = prev[i].position
            /\ length(prev[i].velocity) <= Tenths(maxSpeed)
                  => entities[i].velocity = prev[i].velocity
            /\ length(prev[i].velocity) > Tenths(maxSpeed)
                  => entities[i].velocity = normalize(prev[i].velocity) * Tenths(maxSpeed)

\* update(0) ran on a moving agent within the cap whose policy asked for a
\* non-zero acceleration
C5_Witness ==
    /\ Updated /\ deltaTime = 0
    /\ \E i \in 1..Len(entities) :
          /\ outputs[i].acceleration # 0
          /\ prev[i].velocity # 0
          /\ length(prev[i].velocity) <= Tenths(maxSpeed)

\* C7: in one update the policy is called once per agent, in index order,
\* with the agent's own state, the neighbour list of that moment (without
\* the agent itself), the five terrain samples and the update's deltaTime.
C7_PolicyCalls ==
    Updated =>
        /\ Len(calls) = Len(entities)
        /\ Len(outputs) = Len(entities)
        /\ \A k \in 1..Len(calls) :
              /\ calls[k].index = k
              /\ calls[k].deltaTime = deltaTime
              /\ calls[k].currentState = getState(prev[k])
              /\ Len(calls[k].terrainAhead) = sampleCount
              /\ calls[k].nearbyEntities = findNearbyEntities(SeenBy(k), prev[k].position, k)
              /\ \A n \in 1..Len(calls[k].nearbyEntities) :
                    calls[k].nearbyEntities[n].index # k

\* an update of two or more agents, each given a non-empty neighbour list
C7_Witness ==
    /\ Updated
    /\ Len(calls) >= 2
    /\ \A k \in 1..Len(calls) : calls[k].nearbyEntities # << >>

\* C8: an update sets the velocity to v + a * deltaTime, brought to
\* magnitude maxSpeed in the same direction when it is faster, and the
\* position to p + v' * deltaTime with the new velocity v'.
C8_IntegratorStep ==
    Updated =>
        \A i \in 1..Len(entities) :
            LET raw == prev[i].velocity + outputs[i].acceleration * deltaTime
                capped == IF Abs(raw) > Tenths(maxSpeed)
                          THEN (IF raw > 0 THEN Tenths(maxSpeed) ELSE -Tenths(maxSpeed))
                          ELSE raw
            IN  /\ entities[i].velocity = capped
                /\ entities[i].position = prev[i].position + capped * deltaTime

\* a step with deltaTime > 0 in which the velocity was capped and differs
\* from the one held before
C8_Witness ==
    /\ Updated /\ deltaTime > 0
    /\ \E i \in 1..Len(entities) :
          /\ Abs(prev[i].velocity + outputs[i].acceleration * deltaTime) > Tenths(maxSpeed)
          /\ entities[i].velocity # prev[i].velocity
          /\ entities[i].position = prev[i].position + entities[i].velocity * deltaTime

-----------------------------------------------------------------------------
(* Properties of the neighbour query (checked under QuerySpec) *)

Queried == observer # 0

Others == {j \in 1..Len(entities) : j # observer}

Dist(j) == Abs(entities[j].position - entities[observer].position)

InRange(j) == Dist(j) <= Hundredths(perceptionRadius)

CloseTier == {j \in Others : InRange(j) /\ Dist(j) <= Hundredths(closeRange)}

OuterTier == {j \in Others : InRange(j) /\ Dist(j) > Hundredths(closeRange)}

\* positions of the result holding close-tier and outer-tier entries
CloseEntries == {n \in 1..Len(nearby) : nearby[n].distance <= Hundredths(closeRange)}

OuterEntries == {n \in 1..Len(nearby) : nearby[n].distance > Hundredths(closeRange)}

Returned == {nearby[n].index : n \in 1..Len(nearby)}

\* every entry is read from a different agent, and carries its distance
EntriesFaithful ==
    /\ Cardinality(Returned) = Len(nearby)
    /\ \A n \in 1..Len(nearby) :
          /\ nearby[n].index \in Others
          /\ nearby[n].distance = Dist(nearby[n].index)

\* C2 as stated: whenever the close tier has more than min(K, 7) members the
\* result holds no outer-tier entry, for every K.
C2_TierPriorityAnyCap ==
    (Queried /\ Cardinality(CloseTier) > Min(maxEntityPerception, 7))
        => OuterEntries = {}

\* C2 amended: for K <= 7, whenever the close tier has more than min(K, 7)
\* members the result holds no outer-tier entry.
C2_TierPriorityUpTo7 ==
    (Queried /\ maxEntityPerception <= 7
             /\ Cardinality(CloseTier) > Min(maxEntityPerception, 7))
        => OuterEntries = {}

\* a query with 1 <= K <= 7, more than K close agents and an outer agent in
\* range, answered with K entries
C2_Witness ==
    /\ Queried
    /\ maxEntityPerception \in 1..7
    /\ Cardinality(CloseTier) > maxEntityPerception
    /\ OuterTier # {}
    /\ Len(nearby) = maxEntityPerception

\* C3: the list returned holds at most K entries, for every K the
\* constructor accepts.
C3_PerceptionCap == Queried => Len(nearby) <= maxEntityPerception

\* C6: the list built for agent i holds no entry read from agent i, and the
\* other agents at agent i's coordinates are returned, at distance 0, when
\* they are within the radius and no more than min(K, 7).
C6_SelfExclusion ==
    Queried =>
        LET twins == {j \in Others : entities[j].position = entities[observer].position}
        IN  /\ \A n \in 1..Len(nearby) : nearby[n].index # observer
            /\ (perceptionRadius >= 0 /\ Cardinality(twins) <= Min(maxEntityPerception, 7))
                  => \A j \in twins :
                        \E n \in 1..Len(nearby) :
                            nearby[n].index = j /\ nearby[n].distance = 0

\* a query by an agent that shares its coordinates with another one, which
\* is returned
C6_Witness ==
    /\ Queried
    /\ \E n \in 1..Len(nearby) :
          /\ nearby[n].index # observer
          /\ entities[nearby[n].index].position = entities[observer].position
          /\ nearby[n].distance = 0

\* C9: the close-tier entries of the result are the min(K, 7, closeCount)
\* nearest close-tier agents, they come first, and they are never more
\* than 7.
C9_CloseTierSelection ==
    Queried =>
        LET t == Min(Min(maxEntityPerception, 7), Cardinality(CloseTier))
        IN  /\ EntriesFaithful
            /\ CloseEntries = 1..t
            /\ Cardinality(CloseEntries) <= 7
            /\ \A n \in CloseEntries : \A j \in CloseTier \ Returned :
                  nearby[n].distance <= Dist(j)

\* C10: with t close-tier entries taken, the result holds the
\* min(max(K - t, 0), outerCount) nearest outer-tier agents, behind the
\* close-tier entries, and none when K - t <= 0.
C10_OuterTierFill ==
    Queried =>
        LET t == Cardinality(CloseEntries)
            want == Min(Max(maxEntityPerception - t, 0), Cardinality(OuterTier))
        IN  /\ EntriesFaithful
            /\ OuterEntries = (t + 1)..(t + want)
            /\ \A n \in OuterEntries : nearby[n].index \in OuterTier
            /\ \A n \in OuterEntries : \A j \in OuterTier \ Returned :
                  nearby[n].distance <= Dist(j)
            /\ maxEntityPerception - t <= 0 => OuterEntries = {}

\* a query in which close-tier entries were taken and the remaining slots
\* went to the nearest outer-tier agents, a farther one being left out
C10_Witness ==
    /\ Queried
    /\ CloseEntries # {}
    /\ OuterEntries # {}
    /\ \E j \in OuterTier \ Returned :
          \A n \in OuterEntries : nearby[n].distance < Dist(j)

\* the agents within the perception radius of the observer
InRadiusOthers == CloseTier \cup OuterTier

\* C11: in the list returned the distances of the close-tier entries are
\* non-decreasing in list order, and so are those of the outer-tier entries.
C11_SortOrder ==
    Queried =>
        /\ \A m, n \in CloseEntries : m < n => nearby[m].distance <= nearby[n].distance
        /\ \A m, n \in OuterEntries : m < n => nearby[m].distance <= nearby[n].distance

\* a result with two close-tier entries that stand in the array in the
\* opposite order, the farther one first
C11_Witness ==
    /\ Queried
    /\ \E m, n \in CloseEntries :
          /\ m < n
          /\ nearby[m].distance < nearby[n].distance
          /\ nearby[m].index > nearby[n].index

\* C12: with a cap K <= 7 and M other agents within the radius, the list
\* returned holds exactly the min(K, M) nearest of them in ascending order
\* of distance (none of them for a cap below 1).
C12_NearestK ==
    (Queried /\ maxEntityPerception <= 7) =>
        /\ EntriesFaithful
        /\ Len(nearby) = Max(0, Min(maxEntityPerception, Cardinality(InRadiusOthers)))
        /\ Returned \subseteq InRadiusOthers
        /\ \A m, n \in 1..Len(nearby) : m < n => nearby[m].distance <= nearby[n].distance
        /\ \A n \in 1..Len(nearby) : \A j \in InRadiusOthers \ Returned :
              nearby[n].distance <= Dist(j)

-----------------------------------------------------------------------------
(* Properties of createEntities (checked under Spec) *)

\* C16: after createEntities(count) the population holds exactly count
\* agents and the instanced mesh has exactly count instances, whatever the
\* population held before the call.
C16_PopulationSize ==
    lastOp = "createEntities" =>
        \A call \in created :
            /\ Len(entities) = call.count
            /\ instancedMesh.count = call.count

-----------------------------------------------------------------------------
(* Properties of the update of a population in flight (checked under      *)
(* FlightSpec)                                                             *)

\* C14: after an update the variables of agent i are the map it had when the
\* update began overwritten by the patch the policy returned for i: every
\* key of the patch carries the patch's value, every other key its prior
\* value; without a patch the map is unchanged.  No agent's map depends on
\* the patch of another agent.
C14_PatchMerge ==
    Updated =>
        \A i \in 1..Len(entities) :
            LET old == prev[i].randomVariables
                new == entities[i].randomVariables
                returned == outputs[i].shouldUpdateRandomVariables
            IN  IF returned = Undefined THEN new = old
                ELSE \A patch \in returned :
                        /\ DOMAIN new = (DOMAIN old) \cup (DOMAIN patch)
                        /\ \A k \in DOMAIN new :
                              new[k] = IF k \in DOMAIN patch THEN patch[k] ELSE old[k]

\* an agent holding {a: 1, c: 7} was given the patch {a: 2, b: 3} and holds
\* {a: 2, b: 3, c: 7}, while another agent that held no variable holds
\* {a: 2, b: 3}
C14_Witness ==
    /\ Updated
    /\ \E i, j \in 1..Len(entities) :
          /\ i # j
          /\ DOMAIN prev[i].randomVariables = {"a", "c"}
          /\ prev[i].randomVariables["a"] = 1
          /\ outputs[i].shouldUpdateRandomVariables # Undefined
          /\ DOMAIN entities[i].randomVariables = {"a", "b", "c"}
          /\ entities[i].randomVariables["a"] = 2
          /\ entities[i].randomVariables["b"] = 3
          /\ entities[i].randomVariables["c"] = 7
          /\ DOMAIN prev[j].randomVariables = {}
          /\ DOMAIN entities[j].randomVariables = {"a", "b"}

\* C15: after an update the instance matrix of an agent whose speed is at
\* most 0.1 u/s carries the orientation its instance matrix had when the
\* update began; the matrix of a faster agent carries the orientation of its
\* velocity.
C15_OrientationRetained ==
    Updated =>
        \A i \in 1..Len(entities) :
            instancedMesh.matrices[i].quaternion =
                IF length(entities[i].velocity) > 1
                THEN normalize(entities[i].velocity)
                ELSE prevMesh.matrices[i].quaternion

C22_InputIsolation ==
    (Updated /\ movementFunction = "scribble") =>
        \A i \in 1..Len(entities) :
            LET sum == prev[i].velocity + outputs[i].acceleration * deltaTime
                v == IF length(sum) > Tenths(maxSpeed) THEN normalize(sum) * Tenths(maxSpeed)
                     ELSE sum
                old == prev[i].randomVariables
                new == entities[i].randomVariables
            IN  /\ calls[i].currentState = getState(prev[i])
                /\ calls[i].nearbyEntities = findNearbyEntities(SeenBy(i), prev[i].position, i)
                /\ outputs[i] = gather(calls[i])
                /\ entities[i].velocity = v
                /\ entities[i].position = prev[i].position + v * deltaTime
                /\ \A patch \in outputs[i].shouldUpdateRandomVariables :
                      /\ DOMAIN new = (DOMAIN old) \cup (DOMAIN patch)
                      /\ \A k \in DOMAIN new :
                            new[k] = IF k \in DOMAIN patch THEN patch[k] ELSE old[k]

\* an update of 0.1 s under the overwriting policy in which every agent was
\* handed a neighbour and one agent held a variable
C22_Witness ==
    /\ Updated
    /\ movementFunction = "scribble"
    /\ deltaTime = 1
    /\ Len(entities) > 1
    /\ \A k \in 1..Len(calls) : calls[k].nearbyEntities # << >>
    /\ \E i \in 1..Len(entities) : "c" \in DOMAIN prev[i].randomVariables

-----------------------------------------------------------------------------
(* Properties of the random placement (checked under SpawnSpec) *)

\* C19: after createEntities and after randomizeEntities on a terrain of
\* size T every agent's x and z lie within [-0.4 T, 0.4 T] and its height y
\* within [20, 100]; the agent stands at the position drawn.
C19_SpawnBounds ==
    lastOp \in {"createEntities", "randomizeEntities"} =>
        /\ Len(spawned) = Len(entities)
        /\ \A i \in 1..Len(spawned) :
              /\ spawned[i].x >= -(40 * terrainSize) /\ spawned[i].x <= 40 * terrainSize
              /\ spawned[i].z >= -(40 * terrainSize) /\ spawned[i].z <= 40 * terrainSize
              /\ spawned[i].y >= Hundredths(20) /\ spawned[i].y <= Hundredths(100)
              /\ entities[i].position = spawned[i].z

\* a randomized population with an agent on the edge x = z = -0.4 T at
\* height 20 and an agent drawn at the other end of the three ranges
C19_Witness ==
    /\ lastOp = "randomizeEntities"
    /\ \E i, j \in 1..Len(spawned) :
          /\ spawned[i].x = -(40 * terrainSize)
          /\ spawned[i].z = -(40 * terrainSize)
          /\ spawned[i].y = Hundredths(20)
          /\ spawned[j].x > 39 * terrainSize
          /\ spawned[j].z > 39 * terrainSize
          /\ spawned[j].y > Hundredths(99)

-----------------------------------------------------------------------------
(* Properties of the animation frame (checked under FrameSpec) *)

\* a listener runs in this step: it takes its event off the queue
Dispatched == pending' # pending /\ pending' \subseteq pending

\* C17: a listener (randomize, perception radius, perception cap) runs only
\* while no frame is in progress, a frame starts only when the previous one
\* has returned, and from the start of a frame until its update has
\* published the population changes only by the loop advancing to the next
\* agent, so that all agents are processed before anything else runs.
C17_TickAtomicity ==
    [][/\ Dispatched => (pc = "idle" /\ pc' = "idle")
       /\ ticks' # ticks => (pc = "idle" /\ pc' = "forEach" /\ cursor' = 1)
       /\ pc = "forEach" =>
             /\ perceptionRadius' = perceptionRadius
             /\ maxEntityPerception' = maxEntityPerception
             /\ Len(entities') = Len(entities)
             /\ entities' # entities => (cursor <= Len(entities) /\ cursor' = cursor + 1)
             /\ pc' # "forEach" => (cursor > Len(entities) /\ pc' = "render"
                                      /\ Len(calls) = Len(entities))]_vars

\* a click on the randomize button arrived while the loop stood between two
\* agents and waits in the queue
C17_Witness ==
    /\ pc = "forEach"
    /\ cursor > 1
    /\ cursor <= Len(entities)
    /\ entities # prev
    /\ "randomize-birds" \in pending

\* the whole population has moved since the frame began
AllMoved == \A i \in 1..Len(entities) : entities[i].position # prev[i].position

\* C18: in a frame updateInstancedMesh runs once, after the last agent was
\* integrated and merged: during the loop the instance matrices are those of
\* the frame before; when update has returned each matrix carries the
\* position of its agent in the fully updated population, and these are the
\* matrices the renderer draws.
C18_SinglePublish ==
    /\ pc = "forEach" => (publishes = 0 /\ instancedMesh = prevMesh)
    /\ pc = "render" =>
          /\ publishes = 1
          /\ Len(calls) = Len(entities)
          /\ \A i \in 1..Len(entities) :
                instancedMesh.matrices[i].position = entities[i].position
    /\ lastOp = "render" =>
          /\ publishes = 1
          /\ rendered = instancedMesh.matrices
          /\ Len(rendered) = Len(entities)
          /\ \A i \in 1..Len(entities) : rendered[i].position = entities[i].position

\* a frame in which every agent moved has been rendered
C18_Witness ==
    /\ lastOp = "render"
    /\ Len(entities) > 1
    /\ AllMoved

\* C21: in every frame Simulation.animate hands EntityManager.update, and
\* update hands the policy, a deltaTime of at most 0.1 s, however long the
\* interval clock.getDelta() measured was.
C21_DeltaTimeClamp ==
    ticks > 0 =>
        /\ deltaTime <= 1
        /\ \A k \in 1..Len(calls) : calls[k].deltaTime <= 1

\* an update has run through in a frame that came 0.5 s after the one
\* before, with a deltaTime of 0.1 s
C21_Witness ==
    /\ lastOp = "update"
    /\ clockDelta > 1
    /\ deltaTime = 1
    /\ calls # << >>
    /\ Len(calls) = Len(entities)

-----------------------------------------------------------------------------
(* Properties of a frame whose policy throws (checked under FaultSpec) *)

\* C23: when the policy throws at the agent of index i, update and animate
\* end there: the agents before i hold the position, velocity and variables
\* their own policy call gave them, the agents from i on are as they were
\* before the frame, the instance matrices are untouched, the frame was not
\* rendered, and the frame animate requested before it called update is
\* still requested, so that the next animate can run.
C23_PartialTick ==
    lastOp = "throw" =>
        LET i == Len(calls)
        IN  /\ pc = "idle"
            /\ i \in 1..Len(entities)
            /\ throws(calls[i])
            /\ Len(outputs) = i - 1
            /\ Len(entities) = Len(prev)
            /\ \A j \in 1..(i - 1) :
                  LET sum == prev[j].velocity + outputs[j].acceleration * deltaTime
                      v == IF length(sum) > Tenths(maxSpeed)
                           THEN normalize(sum) * Tenths(maxSpeed) ELSE sum
                      old == prev[j].randomVariables
                      new == entities[j].randomVariables
                  IN  /\ entities[j].velocity = v
                      /\ entities[j].position = prev[j].position + v * deltaTime
                      /\ \A patch \in outputs[j].shouldUpdateRandomVariables :
                            /\ DOMAIN new = (DOMAIN old) \cup (DOMAIN patch)
                            /\ \A k \in DOMAIN new :
                                  new[k] = IF k \in DOMAIN patch THEN patch[k] ELSE old[k]
            /\ \A j \in i..Len(entities) : entities[j] = prev[j]
            /\ instancedMesh = prevMesh
            /\ publishes = 0
            /\ renders = 0
            /\ scheduled

\* the second frame, run although the first one threw before anything was
\* rendered, throws at the second agent after the first one has moved
C23_Witness ==
    /\ lastOp = "throw"
    /\ ticks = 2
    /\ rendered = << >>
    /\ Len(calls) = 2
    /\ entities[1] # prev[1]
    /\ entities[2] = prev[2]

====
